---- MODULE Spec2Model ----
(***************************************************************************)
(* Model of GridHandler (src/GridHandler/GridHandler.py): path mapping,    *)
(* glob resolution, per-worker TGrid connection cache and the download     *)
(* orchestration over a multiprocessing pool or one batched alienpy call.  *)
(* Strings are sequences of one-character strings.                         *)
(***************************************************************************)
EXTENDS Integers, Sequences, FiniteSets, TLC

\* ---------------------------------------------------------------- bounds
MaxPathLen == 7
MaxKeepDepth == 3
MaxAutoCalls == 2
MaxFiles == 1
MaxGlobSpecs == 2
MaxTextLen == 2
MaxWorkers == 2
MaxRuns == 2

\* ------------------------------------------------------- python values
\* None, a deleted attribute and the opaque handles are one-element tuples, so
\* that they compare with the strings (tuples of characters) they stand next to
NoneV == <<"None">>
Absent == <<"deleted">>
Pending == <<"pending">>
\* what became of a job: _download_file returns the local path for the first
\* two and None for the third
Success == <<"Success">>
Skipped == <<"Skipped">>
Failure == <<"Failure">>
NoReport == <<>>
\* keep_depth is None
NoDepth == -1
SEP == "/"
NL == "\n"
WhiteSpace == {" ", NL, "\t"}
OutputDir == <<"g", "r", "i", "d">>
AutoDepths == 9

Min(a, b) == IF a < b THEN a ELSE b
Max(a, b) == IF a > b THEN a ELSE b

\* str.strip(chars): drop leading and trailing characters that are in chars
RECURSIVE LStrip(_, _)
LStrip(s, chars) ==
    IF s # <<>> /\ Head(s) \in chars THEN LStrip(Tail(s), chars) ELSE s

RECURSIVE RStrip(_, _)
RStrip(s, chars) ==
    IF s # <<>> /\ s[Len(s)] \in chars
    THEN RStrip(SubSeq(s, 1, Len(s) - 1), chars) ELSE s

Strip(s, chars) == RStrip(LStrip(s, chars), chars)

\* str.split(sep) with an explicit one-character separator: empty pieces are
\* kept and splitting the empty string gives one empty piece
RECURSIVE SplitFrom(_, _, _)
SplitFrom(s, sep, cur) ==
    IF s = <<>> THEN <<cur>>
    ELSE IF Head(s) = sep THEN <<cur>> \o SplitFrom(Tail(s), sep, <<>>)
    ELSE SplitFrom(Tail(s), sep, Append(cur, Head(s)))

Split(s, sep) == SplitFrom(s, sep, <<>>)

\* sep.join(parts)
RECURSIVE StrJoin(_, _)
StrJoin(sep, parts) ==
    IF parts = <<>> THEN <<>>
    ELSE IF Len(parts) = 1 THEN parts[1]
    ELSE parts[1] \o <<sep>> \o StrJoin(sep, Tail(parts))

\* os.path.join(a, *p) of posixpath, applied to the argument list args;
\* called with no argument at all it raises TypeError
RECURSIVE PathJoinFrom(_, _)
PathJoinFrom(path, rest) ==
    IF rest = <<>> THEN path
    ELSE LET b == Head(rest) IN
         IF b # <<>> /\ Head(b) = SEP THEN PathJoinFrom(b, Tail(rest))
         ELSE IF path = <<>> \/ path[Len(path)] = SEP
              THEN PathJoinFrom(path \o b, Tail(rest))
         ELSE PathJoinFrom(path \o <<SEP>> \o b, Tail(rest))

Ok(v) == [exc |-> "", val |-> v]
Raise(e) == [exc |-> e, val |-> <<>>]

PathJoin(args) ==
    IF args = <<>> THEN Raise("TypeError")
    ELSE Ok(PathJoinFrom(Head(args), Tail(args)))

\* parts[-n:] and parts[-(k+1):-1] of a python list
LastN(parts, n) == SubSeq(parts, Max(1, Len(parts) - n + 1), Len(parts))
DirsBeforeName(parts, k) == SubSeq(parts, Max(1, Len(parts) - k), Len(parts) - 1)

\* GridHandler._unique_local_path
_unique_local_path(remote_path, keep_depth) ==
    LET parts == Split(Strip(remote_path, {SEP}), SEP)
        filename == parts[Len(parts)]
    IN  IF keep_depth = NoDepth
        THEN PathJoin(<<OutputDir>> \o parts)
        ELSE LET sub_path == PathJoin(DirsBeforeName(parts, keep_depth))
             IN  IF sub_path.exc # "" THEN sub_path
                 ELSE PathJoin(<<OutputDir, sub_path.val, filename>>)

\* GridHandler._auto_unique_path: the loop over depth with its local seen set
RECURSIVE AutoLoop(_, _, _, _)
AutoLoop(remote_path, filename, depth, seen) ==
    IF depth > AutoDepths THEN PathJoin(<<OutputDir, filename>>)
    ELSE LET local_name ==
                 StrJoin("_", LastN(Split(Strip(remote_path, {SEP}), SEP), depth))
         IN  IF local_name \notin seen
             THEN PathJoin(<<OutputDir, local_name>>)
             ELSE AutoLoop(remote_path, filename, depth + 1, seen)

_auto_unique_path(remote_path, filename) ==
    AutoLoop(remote_path, filename, 1, {})

\* ------------------------------------------------------------ the state
VARIABLES
    backend, keep_depth, remote_files, remote_files_glob, num_workers,
    alien_session,      \* attributes of the GridHandler object
    cfgFiles,           \* "remote_files" of the configuration file
    alienAvail,         \* module-level name alien is the imported module
    fs,                 \* local files that exist
    pc, exc, ret, runs, \* position of the caller of download()
    found_files, copy_list, prevList, results, report,
    nextJob, wpc, wjob, conn,   \* pool workers; conn is _worker_grid_connection
    outcome, invoked, afterOk, fsAtStart,
    poolStarted, forkSession, sessionOpened, batchCalls, batchResult,
    queries,
    connects,           \* per worker: connections it established
    filesAtEntry,       \* self.remote_files when the last download() began
    handlerCalls,       \* download() calls made on this handler object
    prevFound,          \* found_files of the download() before the last
    pmPath, pmDepth, pmOut, auIn, auOut,  \* calls of the two path helpers
    grGlobs, grResp, grSess, grAvail, grOut  \* a call of _resolve_remote_globs

hvars == <<backend, keep_depth, remote_files, remote_files_glob, num_workers,
           alien_session, cfgFiles, alienAvail>>
ovars == <<pc, exc, ret, runs, found_files, copy_list, prevList, results, report>>
wvars == <<nextJob, wpc, wjob, conn>>
obsvars == <<outcome, invoked, afterOk, fsAtStart, poolStarted, forkSession,
             sessionOpened, batchCalls, batchResult, queries, connects,
             filesAtEntry, handlerCalls, prevFound>>
pvars == <<pmPath, pmDepth, pmOut, auIn, auOut,
          grGlobs, grResp, grSess, grAvail, grOut>>
vars == <<hvars, fs, ovars, wvars, obsvars, pvars>>

\* ------------------------------------------------------- input domains
P1 == <<"/", "x", "/", "y", "/", "f">>
P2 == <<"/", "z", "/", "y", "/", "f">>
RemotePool == {P1, P2}
PathAlphabet == {"/", "a", "b"}

RECURSIVE SeqsUpTo(_, _)
SeqsUpTo(S, n) ==
    IF n = 0 THEN {<<>>}
    ELSE LET shorter == SeqsUpTo(S, n - 1)
         IN  shorter \cup {Append(q, x) : q \in {r \in shorter : Len(r) = n - 1}, x \in S}

Backends == {"TGrid", "alienpy", "bogus"}
\* keep_depth of the handler: unset, keep no directory, keep one of the two
\* directories the paths of RemotePool have
KeepDepths == {NoDepth, 0, 1}
\* a missing list (None) and an empty one are both the empty tuple: the code
\* only ever tests these two attributes for truth
\* P1 and P2 are interchangeable as explicit files: lists that start with P1
FileLists == {q \in SeqsUpTo(RemotePool, MaxFiles) : q = <<>> \/ q[1] = P1}
GlobListsUpTo(m) == {[i \in 1 .. n |-> i] : n \in 0 .. m}
\* in a download(): no glob entry or one
GlobLists == {<<>>, <<1>>}

\* what one alien.DO_find2 call does: raise, return nothing, or return a
\* result whose .out is a newline-delimited text
GlobFailures == {[kind |-> "raise", out |-> <<>>], [kind |-> "none", out |-> <<>>]}
\* in a download(): the query fails or finds two files
GlobResponses == {[kind |-> "raise", out |-> <<>>],
                  [kind |-> "result", out |-> P2 \o <<NL>> \o P1 \o <<NL>>]}
SessionHandle == <<"session">>
InitResults == {SessionHandle, NoneV}
\* what ROOT.gGrid holds after TGrid::Connect: a connected handle, a handle
\* that is null or reports not connected, or None
Connected == <<"connected">>
NotConnected == <<"notconnected">>
ConnectOutcomes == {Connected, NotConnected, NoneV}
BatchOutcomes == {"ok", "failed", "raise"}

Falsy(v) == v = NoneV \/ v = <<>>

\* --------------------------------------------------- orchestrator code
\* GridHandler._ensure_alien_connection
_ensure_alien_connection(sess, avail, initRes) ==
    IF ~avail THEN [exc |-> "", ret |-> NoneV, sess |-> sess, opened |-> FALSE]
    ELSE IF sess = Absent
    THEN [exc |-> "AttributeError", ret |-> NoneV, sess |-> sess, opened |-> FALSE]
    ELSE IF sess = NoneV
    THEN [exc |-> "", ret |-> initRes, sess |-> initRes, opened |-> initRes # NoneV]
    ELSE [exc |-> "", ret |-> sess, sess |-> sess, opened |-> FALSE]

\* [f for f in result.out.split("\n") if f.strip()]
ResultLines(out) ==
    SelectSeq(Split(out, NL), LAMBDA f : Strip(f, WhiteSpace) # <<>>)

\* a loop whose try wraps the whole for: the first query that raises ends it
RECURSIVE ResolveLoopAbort(_, _, _, _)
ResolveLoopAbort(resp, i, n, found) ==
    IF i > n THEN found
    ELSE LET r == resp[i] IN
         IF r.kind = "raise" THEN found
         ELSE IF r.kind = "none" \/ Falsy(r.out) THEN ResolveLoopAbort(resp, i + 1, n, found)
         ELSE ResolveLoopAbort(resp, i + 1, n, found \o ResultLines(r.out))

\* the for loop of _resolve_remote_globs over the glob entries i..n
RECURSIVE ResolveLoop(_, _, _, _)
ResolveLoop(resp, i, n, found) ==
    IF i > n THEN found
    ELSE LET r == resp[i] IN
         IF r.kind = "raise" THEN ResolveLoop(resp, i + 1, n, found)
         ELSE IF r.kind = "none" \/ Falsy(r.out) THEN ResolveLoop(resp, i + 1, n, found)
         ELSE ResolveLoop(resp, i + 1, n, found \o ResultLines(r.out))

\* GridHandler._resolve_remote_globs
_resolve_remote_globs(globs, sess, avail, initRes, resp) ==
    IF globs = <<>> \/ ~avail
    THEN [exc |-> "", found |-> <<>>, sess |-> sess, opened |-> FALSE, queries |-> 0]
    ELSE LET e == _ensure_alien_connection(sess, avail, initRes) IN
         IF e.exc # ""
         THEN [exc |-> e.exc, found |-> <<>>, sess |-> e.sess, opened |-> FALSE, queries |-> 0]
         ELSE IF Falsy(e.ret)
         THEN [exc |-> "", found |-> <<>>, sess |-> e.sess, opened |-> e.opened, queries |-> 0]
         ELSE [exc |-> "", found |-> ResolveLoop(resp, 1, Len(globs), <<>>),
               sess |-> e.sess, opened |-> e.opened, queries |-> Len(globs)]

\* a merge that leaves out glob results the list already has
MergedFilesDeduped(files, found) ==
    LET fresh == SelectSeq(found, LAMBDA f : \A i \in 1 .. Len(files) : files[i] # f)
    IN  IF Falsy(found) THEN files
        ELSE IF Falsy(files) THEN found
        ELSE files \o fresh

\* step 1 of download: the file list after the glob results are merged in
MergedFiles(files, found) ==
    IF Falsy(found) THEN files
    ELSE IF Falsy(files) THEN found
    ELSE files \o found

\* an emptiness test that only catches a missing list
NoFilesNoneOnly(files) == files = NoneV

\* if not self.remote_files: return
NoFiles(files) == Falsy(files)

\* a fan-out that leaves the attribute in place
KeepSession(sess) == sess

\* if hasattr(self, "alien_session"): del self.alien_session
DropSession(sess) == Absent

\* a copy list that renames a local path an earlier entry already has
RECURSIVE BuildRenaming(_, _, _)
BuildRenaming(files, depth, seen) ==
    IF files = <<>> THEN Ok(<<>>)
    ELSE LET m == _unique_local_path(Head(files), depth) IN
         IF m.exc # "" THEN m
         ELSE LET local == IF m.val \in seen THEN m.val \o <<"_">> ELSE m.val
                  rest == BuildRenaming(Tail(files), depth, seen \cup {m.val})
              IN  IF rest.exc # "" THEN rest
                  ELSE Ok(<<[remote |-> Head(files), local |-> local]>> \o rest.val)
BuildCopyListRenaming(files, depth) == BuildRenaming(files, depth, {})

\* step 2 of download: [(f, self._unique_local_path(f)) for f in remote_files]
RECURSIVE BuildCopyList(_, _)
BuildCopyList(files, depth) ==
    IF files = <<>> THEN Ok(<<>>)
    ELSE LET m == _unique_local_path(Head(files), depth) IN
         IF m.exc # "" THEN m
         ELSE LET rest == BuildCopyList(Tail(files), depth) IN
              IF rest.exc # "" THEN rest
              ELSE Ok(<<[remote |-> Head(files), local |-> m.val]>> \o rest.val)

\* a count that gives up at the first failed job
RECURSIVE CountOkUntilFailure(_)
CountOkUntilFailure(rs) ==
    IF rs = <<>> \/ Head(rs) = NoneV THEN 0
    ELSE 1 + CountOkUntilFailure(Tail(rs))

\* n_ok = sum(r is not None for r in results)
RECURSIVE CountOk(_)
CountOk(rs) ==
    IF rs = <<>> THEN 0
    ELSE (IF Head(rs) # NoneV THEN 1 ELSE 0) + CountOk(Tail(rs))

Locals(cl) == {cl[i].local : i \in 1 .. Len(cl)}

\* ------------------------------------------------------------- actions
NoWorkers == <<>>

\* observers of one download() call, as they are when the call starts
ResetObs ==
    /\ invoked' = {}
    /\ afterOk' = {}
    /\ fsAtStart' = fs
    /\ filesAtEntry' = remote_files
    /\ handlerCalls' = handlerCalls + 1
    /\ prevFound' = found_files

\* GridHandler.__init__ on a configuration, in a fresh process
InitHandler ==
    /\ backend \in Backends
    /\ keep_depth \in KeepDepths
    /\ cfgFiles \in FileLists
    /\ remote_files = cfgFiles
    /\ remote_files_glob \in GlobLists
    /\ num_workers \in 1 .. MaxWorkers
    /\ alienAvail \in BOOLEAN
    /\ alien_session = NoneV

InitOrch ==
    /\ fs = {}
    /\ pc = "idle" /\ exc = "" /\ ret = NoneV /\ runs = 0
    /\ found_files = <<>> /\ copy_list = <<>> /\ prevList = <<>>
    /\ results = <<>> /\ report = NoReport
    /\ nextJob = 1 /\ wpc = NoWorkers /\ wjob = NoWorkers /\ conn = NoWorkers
    /\ outcome = <<>> /\ invoked = {} /\ afterOk = {} /\ fsAtStart = {}
    /\ poolStarted = FALSE /\ forkSession = NoneV /\ sessionOpened = FALSE
    /\ batchCalls = 0 /\ batchResult = "none" /\ queries = 0
    /\ connects = <<>>
    /\ filesAtEntry = <<>> /\ handlerCalls = 0 /\ prevFound = <<>>

InitPathIdle ==
    /\ pmPath = <<>> /\ pmDepth = NoDepth /\ pmOut = [exc |-> "pending", val |-> <<>>]
    /\ auIn = <<>> /\ auOut = <<>>
    /\ grGlobs = <<>> /\ grResp = <<>> /\ grSess = NoneV /\ grAvail = TRUE
    /\ grOut = [exc |-> "pending", found |-> <<>>, sess |-> NoneV,
                opened |-> FALSE, queries |-> 0]

Init == InitHandler /\ InitOrch /\ InitPathIdle

\* GridHandler._download_alien, given what alien.DO_XrootdCp does (batch)
_download_alien(cl, sess, initRes, batch) ==
    LET e == _ensure_alien_connection(sess, alienAvail, initRes) IN
    IF e.exc # ""
    THEN [exc |-> e.exc, n |-> 0, sess |-> e.sess, opened |-> FALSE, calls |-> 0,
          res |-> "none"]
    ELSE IF Falsy(e.ret)
    THEN [exc |-> "", n |-> 0, sess |-> e.sess, opened |-> e.opened, calls |-> 0,
          res |-> "none"]
    ELSE IF batch = "raise"
    THEN [exc |-> "", n |-> 0, sess |-> e.sess, opened |-> e.opened, calls |-> 1,
          res |-> batch]
    ELSE [exc |-> "", n |-> Len(cl), sess |-> e.sess, opened |-> e.opened,
          calls |-> 1, res |-> batch]

\* files a batched call leaves behind
BatchFiles(cl, calls, batch) ==
    IF calls = 0 THEN {{}}
    ELSE IF batch = "ok" THEN {Locals(cl)}
    ELSE SUBSET Locals(cl)

\* GridHandler.download from step 2 on, up to the point where it blocks in
\* pool.map (TGrid) or returns (every other path): r is what step 1 got from
\* _resolve_remote_globs, files the merged list, cl the copy list built from it
DownloadBody(r, files, cl, initRes2, batch) ==
    LET base == [pc |-> "done", exc |-> "", files |-> files, sess |-> r.sess,
                 found |-> r.found, cl |-> <<>>, report |-> NoReport,
                 pool |-> FALSE, opened |-> r.opened, calls |-> 0,
                 res |-> "none", queries |-> r.queries, fsAdd |-> {{}}]
    IN  IF r.exc # ""
        THEN [base EXCEPT !.pc = "raised", !.exc = r.exc, !.files = remote_files]
        ELSE IF NoFiles(files) THEN base
        ELSE IF cl.exc # "" THEN [base EXCEPT !.pc = "raised", !.exc = cl.exc]
        ELSE IF backend = "TGrid"
        THEN [base EXCEPT !.pc = "pool", !.cl = cl.val, !.pool = TRUE,
                          !.sess = DropSession(r.sess)]
        ELSE IF backend = "alienpy"
        THEN LET a == _download_alien(cl.val, r.sess, initRes2, batch) IN
             IF a.exc # ""
             THEN [base EXCEPT !.pc = "raised", !.exc = a.exc, !.cl = cl.val]
             ELSE [base EXCEPT !.cl = cl.val, !.sess = a.sess,
                               !.opened = r.opened \/ a.opened,
                               !.calls = a.calls, !.res = a.res,
                               !.report = <<a.n, Len(cl.val)>>,
                               !.fsAdd = BatchFiles(cl.val, a.calls, batch)]
        ELSE [base EXCEPT !.cl = cl.val]

NGlobs == Len(remote_files_glob)

\* the outcomes of the external calls a download() can reach
InitChoices(used) ==
    IF used /\ alienAvail /\ alien_session \in {NoneV, SessionHandle}
    THEN InitResults ELSE {NoneV}
RespChoices ==
    IF alienAvail /\ alien_session # Absent
    THEN [1 .. NGlobs -> GlobResponses] ELSE {<<>>}

Download ==
    /\ pc \in {"idle", "done", "raised"}
    /\ runs < MaxRuns
    /\ \E initRes \in InitChoices(remote_files_glob # <<>>),
          initRes2 \in InitChoices(backend = "alienpy"),
          resp \in RespChoices,
          batch \in (IF backend = "alienpy" THEN BatchOutcomes ELSE {"ok"}) :
         \E r \in {_resolve_remote_globs(remote_files_glob, alien_session,
                                          alienAvail, initRes, resp)} :
         \E files \in {IF r.exc # "" THEN remote_files
                        ELSE MergedFiles(remote_files, r.found)} :
         \E cl \in {IF NoFiles(files) THEN Ok(<<>>)
                     ELSE BuildCopyList(files, keep_depth)} :
         \E d \in {DownloadBody(r, files, cl, initRes2, batch)} :
         /\ pc' = d.pc /\ exc' = d.exc /\ ret' = NoneV
         /\ remote_files' = d.files
         /\ alien_session' = d.sess
         /\ found_files' = d.found
         /\ copy_list' = d.cl
         /\ prevList' = copy_list
         /\ report' = d.report
         /\ results' = [i \in 1 .. Len(d.cl) |-> Pending]
         /\ outcome' = [i \in 1 .. Len(d.cl) |-> Pending]
         /\ \E add \in d.fsAdd : fs' = fs \cup add
         /\ poolStarted' = d.pool
         /\ forkSession' = IF d.pool THEN d.sess ELSE NoneV
         /\ sessionOpened' = d.opened
         /\ batchCalls' = d.calls /\ batchResult' = d.res
         /\ queries' = d.queries
         /\ nextJob' = 1
         /\ wpc' = IF d.pool THEN [w \in 1 .. num_workers |-> "idle"] ELSE NoWorkers
         /\ wjob' = IF d.pool THEN [w \in 1 .. num_workers |-> 0] ELSE NoWorkers
         /\ conn' = IF d.pool THEN [w \in 1 .. num_workers |-> NoneV] ELSE NoWorkers
         /\ connects' = IF d.pool THEN [w \in 1 .. num_workers |-> 0] ELSE NoWorkers
    /\ runs' = runs + 1
    /\ ResetObs
    /\ UNCHANGED <<backend, keep_depth, remote_files_glob, num_workers, cfgFiles,
                   alienAvail, pvars>>

Workers == DOMAIN wpc

\* a pool that hands out no further task once a job has failed
TakeUntilFailure(w) ==
    /\ pc = "pool" /\ wpc[w] = "idle"
    /\ nextJob <= Len(copy_list)
    /\ \A i \in 1 .. Len(outcome) : outcome[i] # Failure
    /\ wjob' = [wjob EXCEPT ![w] = nextJob]
    /\ wpc' = [wpc EXCEPT ![w] = "taken"]
    /\ nextJob' = nextJob + 1
    /\ UNCHANGED <<hvars, fs, ovars, conn, obsvars, pvars>>

\* a pool worker takes the next task of pool.map from the queue (pool.map
\* cuts the list into chunks of ceil(len / (4 * num_workers)) jobs, which is
\* one job for the list lengths reached here)
Take(w) ==
    /\ pc = "pool" /\ wpc[w] = "idle"
    /\ nextJob <= Len(copy_list)
    /\ wjob' = [wjob EXCEPT ![w] = nextJob]
    /\ wpc' = [wpc EXCEPT ![w] = "taken"]
    /\ nextJob' = nextJob + 1
    /\ UNCHANGED <<hvars, fs, ovars, conn, obsvars, pvars>>

\* a fetch that connects again whatever the cache holds
ReconnectAlways(cache, c) ==
    IF c \in {NoneV, NotConnected}
    THEN [copy |-> FALSE, conn |-> c, attempt |-> TRUE]
    ELSE [copy |-> TRUE, conn |-> c, attempt |-> TRUE]

\* GridHandler._download_tgrid up to the call of ROOT.TFile.Cp: the value it
\* returns early (fail) or the decision to copy, with the new cache value
_download_tgrid(cache, c) ==
    IF cache = NoneV
    THEN IF c \in {NoneV, NotConnected}
         THEN [copy |-> FALSE, conn |-> c, attempt |-> TRUE]
         ELSE [copy |-> TRUE, conn |-> c, attempt |-> TRUE]
    ELSE [copy |-> TRUE, conn |-> cache, attempt |-> FALSE]

\* a fetch that never finds the file
ExistsNever(files, local) == FALSE

\* os.path.exists(local_file) in _download_file
Exists(files, local) == local \in files

\* GridHandler._download_file in a worker, up to the blocking copy call
Fetch(w) ==
    /\ pc = "pool" /\ wpc[w] = "taken"
    /\ LET j == wjob[w]
           local == copy_list[j].local
           dupOk == \E i \in 1 .. Len(copy_list) :
                       i # j /\ copy_list[i].local = local /\ outcome[i] = Success
       IN
       /\ afterOk' = IF dupOk THEN afterOk \cup {j} ELSE afterOk
       /\ IF Exists(fs, local)
          THEN /\ results' = [results EXCEPT ![j] = local]
               /\ outcome' = [outcome EXCEPT ![j] = Skipped]
               /\ wpc' = [wpc EXCEPT ![w] = "idle"]
               /\ wjob' = [wjob EXCEPT ![w] = 0]
               /\ UNCHANGED <<fs, conn, invoked, connects>>
          ELSE IF backend # "TGrid"
          THEN /\ results' = [results EXCEPT ![j] = NoneV]
               /\ outcome' = [outcome EXCEPT ![j] = Failure]
               /\ wpc' = [wpc EXCEPT ![w] = "idle"]
               /\ wjob' = [wjob EXCEPT ![w] = 0]
               /\ UNCHANGED <<fs, conn, invoked, connects>>
          ELSE \E c \in (IF conn[w] = NoneV THEN ConnectOutcomes ELSE {conn[w]}) :
               LET t == _download_tgrid(conn[w], c) IN
               /\ conn' = [conn EXCEPT ![w] = t.conn]
               /\ connects' = IF t.attempt /\ t.conn = Connected
                               THEN [connects EXCEPT ![w] = @ + 1]
                               ELSE connects
               /\ IF t.copy
                  THEN /\ invoked' = invoked \cup {j}
                       /\ wpc' = [wpc EXCEPT ![w] = "copying"]
                       /\ UNCHANGED <<fs, results, outcome, wjob>>
                  ELSE /\ results' = [results EXCEPT ![j] = NoneV]
                       /\ outcome' = [outcome EXCEPT ![j] = Failure]
                       /\ wpc' = [wpc EXCEPT ![w] = "idle"]
                       /\ wjob' = [wjob EXCEPT ![w] = 0]
                       /\ UNCHANGED <<fs, invoked>>
    /\ UNCHANGED <<hvars, pc, exc, ret, runs, found_files, copy_list, prevList, report,
                   nextJob, fsAtStart, poolStarted, forkSession, sessionOpened,
                   batchCalls, batchResult, queries, filesAtEntry, handlerCalls,
                   prevFound, pvars>>

\* ROOT.TFile.Cp returns in a worker: the rest of _download_tgrid
CopyDone(w) ==
    /\ pc = "pool" /\ wpc[w] = "copying"
    /\ LET j == wjob[w]
           local == copy_list[j].local
       IN \E ok \in BOOLEAN :
            /\ results' = [results EXCEPT ![j] = IF ok THEN local ELSE NoneV]
            /\ outcome' = [outcome EXCEPT ![j] = IF ok THEN Success ELSE Failure]
            /\ fs' = IF ok THEN fs \cup {local} ELSE fs
    /\ wpc' = [wpc EXCEPT ![w] = "idle"]
    /\ wjob' = [wjob EXCEPT ![w] = 0]
    /\ UNCHANGED <<hvars, pc, exc, ret, runs, found_files, copy_list, prevList, report,
                   nextJob, conn, invoked, afterOk, fsAtStart, poolStarted,
                   forkSession, sessionOpened, batchCalls, batchResult, queries,
                   connects, filesAtEntry, handlerCalls, prevFound, pvars>>

\* pool.map returns every result; the pool is torn down; download logs n_ok
Join ==
    /\ pc = "pool"
    /\ \A i \in 1 .. Len(results) : results[i] # Pending
    /\ report' = <<CountOk(results), Len(copy_list)>>
    /\ pc' = "done" /\ ret' = NoneV
    /\ wpc' = NoWorkers /\ wjob' = NoWorkers /\ conn' = NoWorkers
    /\ connects' = NoWorkers
    /\ UNCHANGED <<hvars, fs, exc, runs, found_files, copy_list, prevList, results,
                   nextJob, outcome, invoked, afterOk, fsAtStart, poolStarted,
                   forkSession, sessionOpened, batchCalls, batchResult, queries,
                   filesAtEntry, handlerCalls, prevFound, pvars>>

\* the program is started again on the same configuration file and disk
Construct ==
    /\ pc \in {"done", "raised"}
    /\ runs < MaxRuns
    /\ remote_files' = cfgFiles
    /\ alien_session' = NoneV
    /\ pc' = "idle" /\ exc' = "" /\ ret' = NoneV
    /\ found_files' = <<>> /\ results' = <<>> /\ report' = NoReport
    /\ outcome' = <<>> /\ invoked' = {} /\ afterOk' = {} /\ fsAtStart' = fs
    /\ poolStarted' = FALSE /\ forkSession' = NoneV /\ sessionOpened' = FALSE
    /\ batchCalls' = 0 /\ batchResult' = "none" /\ queries' = 0
    /\ filesAtEntry' = cfgFiles /\ handlerCalls' = 0 /\ prevFound' = <<>>
    /\ UNCHANGED <<backend, keep_depth, remote_files_glob, num_workers, cfgFiles,
                   alienAvail, fs, runs, copy_list, prevList, wvars, connects,
                   pvars>>

Next ==
    \/ Download
    \/ \E w \in Workers : Take(w)
    \/ \E w \in Workers : Fetch(w)
    \/ \E w \in Workers : CopyDone(w)
    \/ Join
    \/ Construct

Spec == Init /\ [][Next]_vars

\* the pool's processes run: a worker that can take a task, go on with its
\* fetch or get its copy result does so, and pool.map returns once every
\* result is in
PoolStep ==
    \/ \E w \in Workers : Take(w)
    \/ \E w \in Workers : Fetch(w)
    \/ \E w \in Workers : CopyDone(w)
    \/ Join
\* a handler configured for the TGrid backend, the only one that starts a pool
InitLive == Init /\ backend = "TGrid"
SpecLive == InitLive /\ [][Next]_vars /\ WF_vars(PoolStep)

\* --------------------------------------- the path helpers on their own
PendingCall == Raise("pending")

InitPath ==
    /\ backend = "TGrid" /\ keep_depth = NoDepth /\ cfgFiles = <<>>
    /\ remote_files = <<>> /\ remote_files_glob = <<>> /\ num_workers = 1
    /\ alienAvail = TRUE /\ alien_session = NoneV
    /\ InitOrch
    /\ pmPath \in SeqsUpTo(PathAlphabet, MaxPathLen)
    /\ pmDepth \in {NoDepth} \cup (0 .. MaxKeepDepth)
    /\ pmOut = PendingCall
    /\ auIn = <<>> /\ auOut = <<>>
    /\ grGlobs = <<>> /\ grResp = <<>> /\ grSess = NoneV /\ grAvail = TRUE
    /\ grOut = [exc |-> "pending", found |-> <<>>, sess |-> NoneV,
                opened |-> FALSE, queries |-> 0]

\* one call self._unique_local_path(pmPath) on a handler with keep_depth pmDepth
MapCall ==
    /\ pmOut = PendingCall
    /\ pmOut' = _unique_local_path(pmPath, pmDepth)
    /\ UNCHANGED <<hvars, fs, ovars, wvars, obsvars, pmPath, pmDepth, auIn, auOut,
                   grGlobs, grResp, grSess, grAvail, grOut>>

SpecPath == InitPath /\ [][MapCall]_vars

AutoPool == RemotePool \cup SeqsUpTo({"/", "f"}, MaxPathLen - 4)

InitAuto ==
    /\ backend = "TGrid" /\ keep_depth = NoDepth /\ cfgFiles = <<>>
    /\ remote_files = <<>> /\ remote_files_glob = <<>> /\ num_workers = 1
    /\ alienAvail = TRUE /\ alien_session = NoneV
    /\ InitOrch /\ InitPathIdle

\* one more call self._auto_unique_path(p, filename) within the same run
AutoCall ==
    /\ Len(auIn) < MaxAutoCalls
    /\ \E p \in AutoPool :
         LET parts == Split(Strip(p, {SEP}), SEP)
             filename == parts[Len(parts)]
         IN  /\ auIn' = Append(auIn, p)
             /\ auOut' = Append(auOut, _auto_unique_path(p, filename))
    /\ UNCHANGED <<hvars, fs, ovars, wvars, obsvars, pmPath, pmDepth, pmOut,
                   grGlobs, grResp, grSess, grAvail, grOut>>

SpecAuto == InitAuto /\ [][AutoCall]_vars

\* ------------------------------------------ glob resolution on its own
TextAlphabet == {NL, " ", "a"}
QueryResponses == GlobFailures \cup
    {[kind |-> "result", out |-> t] : t \in SeqsUpTo(TextAlphabet, MaxTextLen)}

InitGlob ==
    /\ backend = "TGrid" /\ keep_depth = NoDepth /\ cfgFiles = <<>>
    /\ remote_files = <<>> /\ remote_files_glob = <<>> /\ num_workers = 1
    /\ alienAvail = TRUE /\ alien_session = NoneV
    /\ InitOrch
    /\ pmPath = <<>> /\ pmDepth = NoDepth /\ pmOut = PendingCall
    /\ auIn = <<>> /\ auOut = <<>>
    /\ grGlobs \in GlobListsUpTo(MaxGlobSpecs)
    /\ grResp \in [1 .. Len(grGlobs) -> QueryResponses]
    /\ grSess \in {NoneV, SessionHandle, Absent}
    /\ grAvail \in BOOLEAN
    /\ grOut = [exc |-> "pending", found |-> <<>>, sess |-> NoneV,
                opened |-> FALSE, queries |-> 0]

\* one call self._resolve_remote_globs() with the queries answering grResp
ResolveCall ==
    /\ grOut.exc = "pending"
    /\ \E initRes \in InitResults :
         grOut' = _resolve_remote_globs(grGlobs, grSess, grAvail, initRes, grResp)
    /\ UNCHANGED <<hvars, fs, ovars, wvars, obsvars, pmPath, pmDepth, pmOut,
                   auIn, auOut, grGlobs, grResp, grSess, grAvail>>

SpecGlob == InitGlob /\ [][ResolveCall]_vars

\* =============================================================== claims
Jobs == 1 .. Len(copy_list)
NonFailures == {i \in Jobs : outcome[i] \in {Success, Skipped}}
PoolRunDone == pc = "done" /\ poolStarted

\* C1: when a TGrid download() has returned, every one of its N jobs has been
\* run to an outcome and the count it reports is the number of jobs that
\* ended Success or Skipped, out of N; a failed copy takes nothing else down.
C1_FailureIsolation ==
    PoolRunDone =>
        /\ \A i \in Jobs : outcome[i] \in {Success, Skipped, Failure}
        /\ report = <<Cardinality(NonFailures), Len(copy_list)>>

\* a run of at least three jobs in which exactly one job, neither the first
\* nor the last, failed in the copy primitive
C1_Witness ==
    /\ PoolRunDone /\ Len(copy_list) >= 3
    /\ \E k \in 2 .. Len(copy_list) - 1 :
         /\ k \in invoked /\ outcome[k] = Failure
         /\ \A i \in Jobs \ {k} : outcome[i] \in {Success, Skipped}
    /\ report = <<Len(copy_list) - 1, Len(copy_list)>>

\* C2 as stated: a second download() on an unchanged job list ends with
\* every job Skipped, and no copy primitive, single-file or batched, is
\* invoked for a file that is already present.
SecondRunDone ==
    /\ runs >= 2 /\ pc = "done" /\ copy_list # <<>> /\ copy_list = prevList
    /\ backend \in {"TGrid", "alienpy"}
C2_RerunAllSkipped ==
    SecondRunDone =>
        /\ backend = "TGrid" => \A i \in Jobs : outcome[i] = Skipped
        /\ \A i \in Jobs : copy_list[i].local \in fsAtStart =>
                              i \notin invoked /\ batchCalls = 0

\* C2 amended: in a second TGrid download() on an unchanged job list, every
\* job whose local file is present when that run starts ends Skipped with no
\* single-file copy invoked for it.
C2_RerunSkipsPresent ==
    (runs >= 2 /\ poolStarted /\ copy_list = prevList) =>
        \A i \in Jobs :
            (outcome[i] # Pending /\ copy_list[i].local \in fsAtStart) =>
                outcome[i] = Skipped /\ i \notin invoked

\* a second run, over at least two jobs, that skipped every one of them
C2_Witness ==
    /\ SecondRunDone /\ poolStarted /\ Len(copy_list) >= 2
    /\ \A i \in Jobs : copy_list[i].local \in fsAtStart /\ outcome[i] = Skipped
    /\ invoked = {}

\* C3 as stated: the cache of a worker never holds a handle that failed to
\* connect (after a failed attempt it is empty), so no copy is ever started
\* by a worker on such a handle instead of a new attempt.
C3_FailedHandleNotCached ==
    \A w \in DOMAIN conn :
        /\ conn[w] \in {NoneV, Connected}
        /\ wpc[w] = "copying" => conn[w] = Connected

\* C4 as stated: among the jobs of a TGrid run that share a local path the
\* copy primitive is invoked for at most one, the others end Skipped.
SamePath(i) == {k \in Jobs : copy_list[k].local = copy_list[i].local}
C4_OneCopyPerPath ==
    poolStarted =>
        \A i \in Jobs :
            /\ Cardinality(SamePath(i) \cap invoked) <= 1
            /\ PoolRunDone =>
                 Cardinality({k \in SamePath(i) : outcome[k] # Skipped}) <= 1

\* C4 amended: a job whose existence check comes after another job with the
\* same local path has finished a successful copy ends Skipped without
\* invoking the copy primitive (jobs checked before that may each copy).
C4_SkipAfterFinishedCopy ==
    \A i \in Jobs \cap afterOk : outcome[i] = Skipped /\ i \notin invoked

\* a finished run in which a duplicate was absorbed after a successful copy
C4_Witness ==
    /\ PoolRunDone
    /\ \E i \in Jobs \cap afterOk :
         \E k \in SamePath(i) \ {i} : k \in invoked /\ outcome[k] = Success

\* C5 as stated: with no explicit file and no glob result download() gives
\* (0, 0), without a pool, a batched call or a copy.
EmptyReturned == pc \in {"done", "raised"} /\ remote_files = <<>>
Breaks(t) == {0, Len(t) + 1} \cup {i \in 1 .. Len(t) : t[i] = NL}
NextBreak(t, p) == CHOOSE q \in Breaks(t) : q > p /\ \A r \in Breaks(t) : r > p => q <= r
RECURSIVE LinesAfter(_, _)
LinesAfter(t, p) ==
    IF p > Len(t) THEN <<>>
    ELSE LET q == NextBreak(t, p)
             line == SubSeq(t, p + 1, q - 1)
         IN  (IF \E i \in 1 .. Len(line) : line[i] \notin WhiteSpace
              THEN <<line>> ELSE <<>>) \o LinesAfter(t, q)
QuerySucceeded(r) == r.kind = "result" /\ r.out # <<>>
RECURSIVE ConcatLines(_, _)
ConcatLines(resp, n) ==
    IF n = 0 THEN <<>>
    ELSE ConcatLines(resp, n - 1) \o
         (IF QuerySucceeded(resp[n]) THEN LinesAfter(resp[n].out, 0) ELSE <<>>)

\* C6: a resolution that does not raise returns the concatenation, in
\* GlobSpec order, of the non-blank lines of the queries that succeeded; a
\* query that raised or came back empty adds nothing and stops nothing (with
\* no session no query is made and the result is empty).
C6_GlobNonFatal ==
    grOut.exc = "" =>
        /\ grOut.queries \in {0, Len(grGlobs)}
        /\ grOut.found = IF grOut.queries = 0 THEN <<>>
                         ELSE ConcatLines(grResp, Len(grGlobs))

\* the first query raised and the second one still delivered its lines
C6_Witness ==
    /\ grOut.exc = "" /\ grOut.queries = 2
    /\ grResp[1].kind = "raise" /\ QuerySucceeded(grResp[2])
    /\ grOut.found # <<>> /\ grOut.found = LinesAfter(grResp[2].out, 0)

\* C7 as stated: an alienpy download() reports N of N when the batched call
\* succeeded and 0 of N whenever it reported failure or no session was there.
C7_BatchAllOrNothing ==
    (pc = "done" /\ backend = "alienpy" /\ copy_list # <<>>) =>
        report = IF batchCalls = 1 /\ batchResult = "ok"
                 THEN <<Len(copy_list), Len(copy_list)>>
                 ELSE <<0, Len(copy_list)>>

\* the path segments of the claim: split on "/", empty segments dropped
Segments(path) == SelectSeq(Split(path, SEP), LAMBDA g : g # <<>>)
KeptSegments(path, k) ==
    LET segs == Segments(path)
        d == Len(segs) - 1
    IN  IF k = NoDepth THEN segs
        ELSE SubSeq(segs, Len(segs) - Min(k, d), Len(segs))

\* C8 as stated: for a path with d >= 0 directories before its file name and
\* keep_depth k >= 0 the mapper returns, without raising, output_dir joined
\* with the last min(k, d) directories and the file name; with keep_depth
\* unset, output_dir joined with every segment.
NoEmptySegment ==
    \A i \in 1 .. Len(pmPath) - 1 : ~(pmPath[i] = SEP /\ pmPath[i + 1] = SEP)
C8_KeepDepth ==
    (pmOut # PendingCall /\ Segments(pmPath) # <<>> /\ NoEmptySegment) =>
        pmOut = Ok(StrJoin(SEP, <<OutputDir>> \o KeptSegments(pmPath, pmDepth)))

\* the suffixes of the claim: the last n segments joined by underscores
Suffix(path, n) == StrJoin("_", LastN(Segments(path), n))
ShortestUnseen(path, seen) ==
    LET fits == {n \in 1 .. AutoDepths : Suffix(path, n) \notin seen}
    IN  IF fits = {} THEN Suffix(path, 1)
        ELSE Suffix(path, CHOOSE n \in fits : \A m \in fits : n <= m)
ReturnedNames(k) ==
    {SubSeq(auOut[i].val, Len(OutputDir) + 2, Len(auOut[i].val)) : i \in 1 .. k}

\* C9 as stated: each call of the fallback returns output_dir joined with the
\* shortest underscore-joined suffix that no earlier call of the run returned.
C9_AutoUnique ==
    \A i \in 1 .. Len(auOut) :
        Segments(auIn[i]) # <<>> =>
            auOut[i] = Ok(StrJoin(SEP, <<OutputDir,
                 ShortestUnseen(auIn[i], ReturnedNames(i - 1))>>))

\* C10: while the pool of a TGrid download() is running the handler has no
\* alien_session attribute, and none was on the handler given to the workers.
C10_NoSessionAtFanOut ==
    pc = "pool" => alien_session = Absent /\ forkSession = Absent

\* glob resolution opened a session in this very download() and jobs are out
C10_Witness ==
    pc = "pool" /\ sessionOpened /\ nextJob > 1 /\ found_files # <<>>

\* the exit status of python -m GridHandler around handler.download(): 1 when
\* the call raised, 0 when it returned
ExitCode == IF pc = "raised" THEN 1 ELSE 0
Returned == runs >= 1 /\ pc \in {"done", "raised"}

\* C11 as stated: with a backend that is neither "TGrid" nor "alienpy"
\* and files to fetch, download() does not complete normally, the process
\* exits non-zero and no CopyJob is dispatched.
C11_BadBackendFatal ==
    (Returned /\ backend \notin {"TGrid", "alienpy"} /\ remote_files # <<>>) =>
        /\ pc = "raised" /\ ExitCode # 0
        /\ ~poolStarted /\ batchCalls = 0 /\ invoked = {}

\* C12: for the handler's output_dir and keep_depth, a remote path has one
\* local path wherever it stands in the copy list of this download() and in
\* the copy list of the one before, whatever was mapped in between.
SameMapping(a, b) ==
    \A i \in 1 .. Len(a), k \in 1 .. Len(b) :
        a[i].remote = b[k].remote => a[i].local = b[k].local
C13_EmptyPathRejected ==
    pmOut # PendingCall =>
        /\ pmPath = <<>> => pmOut.exc = "InvalidPathError"
        /\ pmPath # <<>> => pmOut.exc = ""

\* C14 as stated: within one download() two jobs with different remote paths
\* never have the same local path.
C14_DistinctTargets ==
    \A i \in Jobs, k \in Jobs :
        copy_list[i].remote # copy_list[k].remote =>
            copy_list[i].local # copy_list[k].local

\* C15: a fetch that finds its local file on disk ends Skipped with the local
\* path as its value, and in that step no connection is made, the caches of
\* all workers stay as they are and no copy is invoked.
SkipLeavesNoTrace(w) ==
    (/\ pc = "pool" /\ wpc[w] = "taken" /\ wpc'[w] # "taken"
     /\ copy_list[wjob[w]].local \in fs) =>
        /\ outcome'[wjob[w]] = Skipped
        /\ results'[wjob[w]] = copy_list[wjob[w]].local
        /\ conn' = conn /\ connects' = connects /\ invoked' = invoked
        /\ fs' = fs
C15_SkipBeforeConnection ==
    [][\A w \in DOMAIN wpc : SkipLeavesNoTrace(w)]_vars

\* a job was skipped by a worker that has never connected, and no copy was
\* invoked in the run
C15_Witness ==
    /\ pc = "pool" /\ invoked = {}
    /\ \E i \in Jobs : outcome[i] = Skipped
    /\ \A w \in DOMAIN conn : conn[w] = NoneV /\ connects[w] = 0

\* C16: a worker establishes a connection successfully at most once; every
\* later fetch of that worker goes on with the cached handle.
C16_OneConnectionPerWorker ==
    \A w \in DOMAIN connects :
        /\ connects[w] <= 1
        /\ connects[w] = 1 => conn[w] = Connected

\* a single worker that has started two copies on one established connection
C16_Witness ==
    /\ pc = "pool" /\ num_workers = 1
    /\ Cardinality(invoked) >= 2
    /\ connects[1] = 1

Remotes(cl) == [i \in 1 .. Len(cl) |-> cl[i].remote]

\* C17: the job list of a download() is the file list it was called with
\* followed by every resolved glob path, duplicates kept, one job per entry
\* in that order; the total it reports is the sum of the two lengths.
C17_ListIsFilesThenGlobs ==
    (pc \in {"pool", "done"} /\ copy_list # <<>>) =>
        /\ Remotes(copy_list) = filesAtEntry \o found_files
        /\ Len(copy_list) = Len(filesAtEntry) + Len(found_files)
        /\ report # NoReport => report[2] = Len(filesAtEntry) + Len(found_files)

\* an explicit file that the globs found again: it is in the list twice
C17_Witness ==
    /\ pc = "done" /\ report # NoReport
    /\ filesAtEntry # <<>> /\ found_files # <<>>
    /\ \E i \in 1 .. Len(found_files) : found_files[i] = filesAtEntry[1]
    /\ report[2] = Len(filesAtEntry) + Len(found_files)

\* C18: with every fetch returning, a TGrid download() that has started its
\* pool returns, and when it has returned every job has exactly one outcome
\* and one result.
AllJobsDone ==
    /\ Len(results) = Len(copy_list) /\ Len(outcome) = Len(copy_list)
    /\ \A i \in Jobs : outcome[i] \in {Success, Skipped, Failure} /\ results[i] # Pending
C18_PoolDrains ==
    (pc = "pool") ~> (pc = "done" /\ poolStarted /\ AllJobsDone)

\* a run that returned although one job failed and another was skipped
C18_Witness ==
    /\ PoolRunDone /\ AllJobsDone
    /\ \E i \in Jobs : outcome[i] = Failure
    /\ \E i \in Jobs : outcome[i] = Skipped

\* C19 as stated: a further download() on the same handler, with the globs
\* finding what they found before, builds the job list the call before built.
C19_ListDoesNotGrow ==
    (/\ handlerCalls >= 2 /\ pc \in {"pool", "done"}
     /\ found_files = prevFound) =>
        /\ copy_list = prevList
        /\ Len(remote_files) = Len(filesAtEntry)

\* C20 as stated: between download() calls the handler's alien_session is
\* None or a handle, and no download() fails on reading it.
C20_SessionSlotDefined ==
    /\ pc \in {"idle", "done", "raised"} => alien_session \in {NoneV, SessionHandle}
    /\ exc # "AttributeError"

====
